---- MODULE Spec2Model ----
(***************************************************************************)
(* Model of the comic-snaps gallery: the presentation core of the web app  *)
(* (filtering.ts, sorting.ts, MasonryGrid.tsx computeLayout) driven by the *)
(* UI handlers that call it (FilterControl.toggleInSet / clearAll,         *)
(* SortControl.onSort, MasonryGrid.layout).                                *)
(*                                                                         *)
(* Representation                                                          *)
(*   - an optional value is a sequence of length <= 1: None is <<>>,       *)
(*     Some(v) is <<v>> (tags, dominantColors, colorfulness, width,        *)
(*     height);                                                            *)
(*   - a hash string is the sequence of its characters; the empty          *)
(*     sequence stands for "", null and undefined, which the code treats   *)
(*     alike (all falsy);                                                  *)
(*   - addedAt is an ISO-8601 timestamp kept as <<local time, UTC offset>> *)
(*     and getTime turns it into the instant;                              *)
(*   - lengths of the layout are exact rationals kept as integers in       *)
(*     units of 1/UNIT pixel.                                              *)
(***************************************************************************)
EXTENDS Integers, Sequences, FiniteSets, TLC

VARIABLES
    panels,          \* App state: the Panel[] of gallery.json
    filters,         \* App state: Filters (four sets of labels)
    sortMode,        \* App state: SortMode
    filteredPanels,  \* useMemo: applyFilters(panels, filters)
    sortedPanels,    \* useMemo: sortPanels(filteredPanels, sortMode)
    facets,          \* FilterControl useMemo: computeFacets(allPanels, filters)
    innerWidth,      \* window.innerWidth at the last layout pass
    containerWidth,  \* containerRef.offsetWidth at the last layout pass (px)
    initialHeights,  \* the array handed to computeLayout, as it is after the call
    placed,          \* MasonryGrid state: PlacedItem[]
    totalHeight,     \* MasonryGrid state: total canvas height
    heights,         \* computeLayout's column height trackers when it returns
    filterRef,       \* filterRef.current: None, or Some(offsetHeight)
    sortRef,         \* sortRef.current: None, or Some(offsetHeight)
    argsApplyFilters,   \* the arguments the last applyFilters call was given
    argsComputeFacets,  \* the arguments the last computeFacets call was given
    argsSortPanels,     \* the arguments the last sortPanels call was given
    argsComputeLayout,  \* the arguments the last computeLayout call was given
    worker,          \* the bot: its Env, the repository and the chat as its calls left them
    status,          \* App state: "loading", "ready" or "error"
    imagesLoaded,    \* App state
    res,             \* the response to the fetch of data/gallery.json
    preload          \* the preload effect: images not settled yet, its timer, its flags

appVars == <<panels, filters, sortMode, filteredPanels, sortedPanels, facets,
             innerWidth, containerWidth, initialHeights, placed, totalHeight,
             heights, filterRef, sortRef,
             argsApplyFilters, argsComputeFacets, argsSortPanels, argsComputeLayout>>

loadVars == <<status, imagesLoaded, res, preload>>

vars == <<appVars, worker, loadVars>>

(* Generic helpers.  Where a value is used several times or handed down a    *)
(* loop it is bound once, as the element of a singleton set.                *)

None == <<>>

Some(v) == <<v>>

Range(s) == {s[i] : i \in DOMAIN s}

Max2(a, b) == IF a >= b THEN a ELSE b

Reverse(s) == [i \in 1..Len(s) |-> s[Len(s) + 1 - i]]

\* a JavaScript Map: a function whose domain is the set of keys
EmptyMap == [k \in {} |-> 0]

\* map.get(k) ?? 0
MapGet0(m, k) == IF k \in DOMAIN m THEN m[k] ELSE 0

\* map.set(k, v)
MapSet(m, k, v) == [x \in (DOMAIN m) \cup {k} |-> IF x = k THEN v ELSE m[x]]

(* filtering.ts *)

EMPTY_FILTERS ==
    [decades |-> {}, tags |-> {}, artists |-> {}, postedBy |-> {}]

hasActiveFilters(f) ==
    \/ Cardinality(f.decades) > 0
    \/ Cardinality(f.tags) > 0
    \/ Cardinality(f.artists) > 0
    \/ Cardinality(f.postedBy) > 0

getDecade(year) == ToString((year \div 10) * 10) \o "s"

\* p.tags ?? []
tagsOrEmpty(p) == IF p.tags = None THEN <<>> ELSE p.tags[1]

\* panelTags.some((t) => filters.tags.has(t))
someTagIn(p, f) == \E i \in DOMAIN tagsOrEmpty(p) : tagsOrEmpty(p)[i] \in f.tags

\* applyFilters_keep without the postedBy test
applyFilters_keep_noPostedBy(p, f) ==
    IF Cardinality(f.decades) > 0 /\ getDecade(p.year) \notin f.decades THEN FALSE
    ELSE IF Cardinality(f.artists) > 0 /\ p.artist \notin f.artists THEN FALSE
    ELSE IF Cardinality(f.tags) > 0 /\ ~someTagIn(p, f) THEN FALSE
    ELSE TRUE

\* the callback of panels.filter in applyFilters
applyFilters_keep(p, f) ==
    IF Cardinality(f.decades) > 0 /\ getDecade(p.year) \notin f.decades THEN FALSE
    ELSE IF Cardinality(f.artists) > 0 /\ p.artist \notin f.artists THEN FALSE
    ELSE IF Cardinality(f.postedBy) > 0 /\ p.postedBy \notin f.postedBy THEN FALSE
    ELSE IF Cardinality(f.tags) > 0 /\ ~someTagIn(p, f) THEN FALSE
    ELSE TRUE

\* applyFilters collecting the kept panels with unshift instead of push
applyFilters_unshift(ps, f) ==
    IF ~hasActiveFilters(f) THEN ps
    ELSE Reverse(SelectSeq(ps, LAMBDA p : applyFilters_keep(p, f)))

applyFilters(ps, f) ==
    IF ~hasActiveFilters(f) THEN ps
    ELSE SelectSeq(ps, LAMBDA p : applyFilters_keep(p, f))

\* the argument arrays/sets of applyFilters when it returns: it only reads them
applyFilters_panels(ps, f) == ps

applyFilters_filters(ps, f) == f

passArtist(p, f) == Cardinality(f.artists) = 0 \/ p.artist \in f.artists

passTags(p, f) == Cardinality(f.tags) = 0 \/ someTagIn(p, f)

passDecade(p, f) == Cardinality(f.decades) = 0 \/ getDecade(p.year) \in f.decades

passPostedBy(p, f) == Cardinality(f.postedBy) = 0 \/ p.postedBy \in f.postedBy

\* countTags marking a tag as present instead of counting it
countTags_noIncrement(m, ts, i) ==
    [t \in (DOMAIN m) \cup {ts[k] : k \in i..Len(ts)} |-> 1]

\* for (const t of p.tags ?? []) tagCounts.set(t, (tagCounts.get(t) ?? 0) + 1)
RECURSIVE countTags(_, _, _)
countTags(m, ts, i) ==
    IF i > Len(ts) THEN m
    ELSE countTags(MapSet(m, ts[i], MapGet0(m, ts[i]) + 1), ts, i + 1)

\* an iteration that counts a panel only when it passes all four dimensions
computeFacets_step_allDimensions(acc, p, f) ==
    IF ~(passArtist(p, f) /\ passTags(p, f) /\ passDecade(p, f) /\ passPostedBy(p, f))
    THEN acc
    ELSE [decadeCounts |->
              MapSet(acc.decadeCounts, getDecade(p.year),
                     MapGet0(acc.decadeCounts, getDecade(p.year)) + 1),
          tagCounts |-> countTags(acc.tagCounts, tagsOrEmpty(p), 1),
          artistCounts |->
              MapSet(acc.artistCounts, p.artist, MapGet0(acc.artistCounts, p.artist) + 1),
          postedByCounts |->
              MapSet(acc.postedByCounts, p.postedBy,
                     MapGet0(acc.postedByCounts, p.postedBy) + 1)]

\* one iteration of the for-loop of computeFacets
computeFacets_step(acc, p, f) ==
    [decadeCounts |->
        IF passArtist(p, f) /\ passTags(p, f) /\ passPostedBy(p, f)
        THEN MapSet(acc.decadeCounts, getDecade(p.year),
                    MapGet0(acc.decadeCounts, getDecade(p.year)) + 1)
        ELSE acc.decadeCounts,
     tagCounts |->
        IF passArtist(p, f) /\ passDecade(p, f) /\ passPostedBy(p, f)
        THEN countTags(acc.tagCounts, tagsOrEmpty(p), 1)
        ELSE acc.tagCounts,
     artistCounts |->
        IF passTags(p, f) /\ passDecade(p, f) /\ passPostedBy(p, f)
        THEN MapSet(acc.artistCounts, p.artist, MapGet0(acc.artistCounts, p.artist) + 1)
        ELSE acc.artistCounts,
     postedByCounts |->
        IF passTags(p, f) /\ passDecade(p, f) /\ passArtist(p, f)
        THEN MapSet(acc.postedByCounts, p.postedBy,
                    MapGet0(acc.postedByCounts, p.postedBy) + 1)
        ELSE acc.postedByCounts]

RECURSIVE computeFacets_loop(_, _, _, _)
computeFacets_loop(acc, ps, f, i) ==
    IF i > Len(ps) THEN acc
    ELSE CHOOSE r \in {computeFacets_loop(next, ps, f, i + 1) :
                           next \in {computeFacets_step(acc, ps[i], f)}} : TRUE

\* a computeFacets whose decade table starts with a zero entry per known decade
computeFacets_seeded(ps, f) ==
    computeFacets_loop(
        [decadeCounts |-> [d \in {"1980s", "1990s"} |-> 0], tagCounts |-> EmptyMap,
         artistCounts |-> EmptyMap, postedByCounts |-> EmptyMap],
        ps, f, 1)

computeFacets(ps, f) ==
    computeFacets_loop(
        [decadeCounts |-> EmptyMap, tagCounts |-> EmptyMap,
         artistCounts |-> EmptyMap, postedByCounts |-> EmptyMap],
        ps, f, 1)

\* the arguments of computeFacets when it returns: it only reads them
computeFacets_panels(ps, f) == ps

computeFacets_filters(ps, f) == f

(* sorting.ts *)

COLORFULNESS_THRESHOLD == 5

\* new Date(addedAt).getTime(): the instant of an ISO-8601 timestamp,
\* its local time minus its UTC offset
getTime(addedAt) == addedAt[1] - addedAt[2]

\* (a, b) => new Date(b.addedAt).getTime() - new Date(a.addedAt).getTime()
cmpNewest(a, b) == getTime(b.addedAt) - getTime(a.addedAt)

\* (a, b) => new Date(a.addedAt).getTime() - new Date(b.addedAt).getTime()
cmpOldest(a, b) == getTime(a.addedAt) - getTime(b.addedAt)

\* 1000 * pi/4 = 785.398..., in units of 1/1000: the sort-key step of one
\* eighth of a turn of hue
KEY_EIGHTH_TURN == 785398

\* Math.atan2(b, a) in eighths of a turn (pi/4), for a and b that are zero or
\* of equal magnitude: the angles the modelled colours have
atan2_eighths(b, a) ==
    CASE a > 0 /\ b = 0 -> 0
      [] a > 0 /\ b > 0 -> 1
      [] a = 0 /\ b > 0 -> 2
      [] a < 0 /\ b > 0 -> 3
      [] a < 0 /\ b = 0 -> 4
      [] a < 0 /\ b < 0 -> -3
      [] a = 0 /\ b < 0 -> -2
      [] a > 0 /\ b < 0 -> -1
      [] a = 0 /\ b = 0 -> 0

\* colorSortKey: [inf |-> TRUE] is Infinity, else val is hueNorm*1000 + L
\* in units of 1/1000 (L is an integer, so the rounding of KEY_EIGHTH_TURN
\* changes neither the order nor the equality of two keys)
colorSortKey(p) ==
    IF p.dominantColors = None \/ p.dominantColors[1] = <<>>
    THEN [inf |-> TRUE, val |-> 0]
    ELSE LET c == p.dominantColors[1][1]
             hue == atan2_eighths(c[3], c[2])
             hueNorm == IF hue < 0 THEN hue + 8 ELSE hue
         IN  [inf |-> FALSE, val |-> hueNorm * KEY_EIGHTH_TURN + c[1] * 1000]

\* a byColor that leaves panels of equal key as they come
byColor_noTiebreak(a, b) ==
    LET ka == colorSortKey(a)
        kb == colorSortKey(b)
    IN  IF ka.inf /\ kb.inf THEN 0
        ELSE IF ka.inf THEN 1 ELSE IF kb.inf THEN -1 ELSE ka.val - kb.val

\* byColor; only the sign of the result is used by sort
byColor(a, b) ==
    LET ka == colorSortKey(a)
        kb == colorSortKey(b)
    IN  IF ka.inf /\ kb.inf THEN getTime(a.addedAt) - getTime(b.addedAt)
        ELSE IF ka # kb
             THEN (IF ka.inf THEN 1 ELSE IF kb.inf THEN -1 ELSE ka.val - kb.val)
             ELSE getTime(a.addedAt) - getTime(b.addedAt)

\* the comparator callbacks handed to sort, by name
compare(cmp, a, b) ==
    CASE cmp = "cmpNewest" -> cmpNewest(a, b)
      [] cmp = "cmpOldest" -> cmpOldest(a, b)
      [] cmp = "byColor" -> byColor(a, b)

\* an insertion that puts e before the elements it ties with
sort_insert_unstable(t, e, cmp) ==
    LET after == {i \in 1..Len(t) : compare(cmp, t[i], e) >= 0}
        pos == IF after = {} THEN Len(t) + 1
               ELSE CHOOSE i \in after : \A j \in after : i <= j
    IN  SubSeq(t, 1, pos - 1) \o <<e>> \o SubSeq(t, pos, Len(t))

\* Array.prototype.sort(cmp): a stable sort (ECMAScript 2019); e goes before
\* the first element that compares greater than it
sort_insert(t, e, cmp) ==
    LET after == {i \in 1..Len(t) : compare(cmp, t[i], e) > 0}
        pos == IF after = {} THEN Len(t) + 1
               ELSE CHOOSE i \in after : \A j \in after : i <= j
    IN  SubSeq(t, 1, pos - 1) \o <<e>> \o SubSeq(t, pos, Len(t))

RECURSIVE sort_loop(_, _, _, _)
sort_loop(t, s, k, cmp) ==
    IF k > Len(s) THEN t
    ELSE CHOOSE r \in {sort_loop(u, s, k + 1, cmp) : u \in {sort_insert(t, s[k], cmp)}} : TRUE

sort(s, cmp) == sort_loop(<<>>, s, 1, cmp)

hexDigits ==
    <<"0", "1", "2", "3", "4", "5", "6", "7", "8", "9", "a", "b", "c", "d", "e", "f">>

hexValue == [c \in Range(hexDigits) |-> (CHOOSE i \in DOMAIN hexDigits : hexDigits[i] = c) - 1]

\* parseInt(c, 16) of one character: None is NaN
parseInt16(c) == IF c \in DOMAIN hexValue THEN Some(hexValue[c]) ELSE None

\* the operand conversion of ^ : NaN becomes 0
ToInt32(n) == IF n = None THEN 0 ELSE n[1]

\* na ^ nb on values below 16
xor4(na, nb) ==
    LET bit(n, j) == (n \div (2 ^ j)) % 2
        d(j) == IF bit(na, j) # bit(nb, j) THEN 2 ^ j ELSE 0
    IN  d(0) + d(1) + d(2) + d(3)

\* a count of the digits that differ instead of the bits
popcount_nonzero(x) == IF x = 0 THEN 0 ELSE 1

\* while (xor) { dist += xor & 1; xor >>= 1; }
RECURSIVE popcount(_)
popcount(x) == IF x = 0 THEN 0 ELSE (x % 2) + popcount(x \div 2)

\* a[i] ?? "0", i counted from 1
charAt0(a, i) == IF i <= Len(a) THEN a[i] ELSE "0"

RECURSIVE hammingDistanceHex_loop(_, _, _)
hammingDistanceHex_loop(a, b, i) ==
    IF i > Max2(Len(a), Len(b)) THEN 0
    ELSE popcount(xor4(ToInt32(parseInt16(charAt0(a, i))),
                       ToInt32(parseInt16(charAt0(b, i)))))
         + hammingDistanceHex_loop(a, b, i + 1)

hammingDistanceHex(a, b) == hammingDistanceHex_loop(a, b, 1)

\* p[hashKey]
hashOf(p, hashKey) ==
    CASE hashKey = "phash" -> p.phash
      [] hashKey = "ahash" -> p.ahash
      [] hashKey = "dhash" -> p.dhash

\* the inner for-loop of the walk: the first unused index of minimum distance
\* to currentHash (dist < bestDist is strict); -1 when none beats Infinity
walk_bestIdx(withHash, used, currentHash, hashKey) ==
    LET cand == (1..Len(withHash)) \ used
        dist(i) == hammingDistanceHex(currentHash, hashOf(withHash[i], hashKey))
    IN  IF cand = {} THEN -1
        ELSE CHOOSE i \in cand :
                 \A j \in cand : dist(i) < dist(j) \/ (dist(i) = dist(j) /\ i <= j)

\* the nearest-neighbour walk; st is [result, used] after step-1 steps
RECURSIVE walk(_, _, _, _)
walk(withHash, hashKey, st, step) ==
    IF step >= Len(withHash) THEN st.result
    ELSE LET currentHash == hashOf(withHash[Len(st.result)], hashKey)
             bestIdx == walk_bestIdx(withHash, st.used, currentHash, hashKey)
             next == IF bestIdx >= 1
                     THEN [result |-> Append(st.result, withHash[bestIdx]),
                           used |-> st.used \cup {bestIdx}]
                     ELSE st
         IN  CHOOSE r \in {walk(withHash, hashKey, n, step + 1) : n \in {next}} : TRUE

\* a walk that appends the unhashed panels in their incoming order
sortByHash_unsortedRest(sorted, hashKey) ==
    IF Len(sorted) <= 1 THEN sorted
    ELSE CHOOSE r \in
             {IF Len(withHash) <= 1 THEN withHash \o withoutHash
              ELSE walk(withHash, hashKey,
                        [result |-> <<withHash[1]>>, used |-> {1}], 1) \o withoutHash :
                  withHash \in {SelectSeq(sorted, LAMBDA p : hashOf(p, hashKey) # <<>>)},
                  withoutHash \in {SelectSeq(sorted,
                                             LAMBDA p : hashOf(p, hashKey) = <<>>)}} : TRUE

\* a walk that returns the hashed panels only
sortByHash_dropsUnhashed(sorted, hashKey) ==
    IF Len(sorted) <= 1 THEN sorted
    ELSE CHOOSE r \in
             {IF Len(withHash) <= 1 THEN withHash
              ELSE walk(withHash, hashKey,
                        [result |-> <<withHash[1]>>, used |-> {1}], 1) :
                  withHash \in {SelectSeq(sorted, LAMBDA p : hashOf(p, hashKey) # <<>>)}} : TRUE

sortByHash(sorted, hashKey) ==
    IF Len(sorted) <= 1 THEN sorted
    ELSE CHOOSE r \in
             {IF Len(withHash) <= 1 THEN withHash \o withoutHash
              ELSE walk(withHash, hashKey,
                        [result |-> <<withHash[1]>>, used |-> {1}], 1) \o withoutHash :
                  withHash \in {SelectSeq(sorted, LAMBDA p : hashOf(p, hashKey) # <<>>)},
                  withoutHash \in {sort(SelectSeq(sorted,
                                                  LAMBDA p : hashOf(p, hashKey) = <<>>),
                                        "cmpOldest")}} : TRUE

\* p.colorfulness ?? 0
colorfulnessOr0(p) == IF p.colorfulness = None THEN 0 ELSE p.colorfulness[1]

\* a partition whose threshold is exclusive
isChromatic_exclusive(p) == colorfulnessOr0(p) > COLORFULNESS_THRESHOLD

isChromatic(p) == colorfulnessOr0(p) >= COLORFULNESS_THRESHOLD

sortByColor(sorted) ==
    IF Len(sorted) <= 1 THEN sorted
    ELSE LET chromatic == SelectSeq(sorted, LAMBDA p : isChromatic(p))
             achromatic == SelectSeq(sorted, LAMBDA p : ~isChromatic(p))
         IN  sort(chromatic, "byColor") \o sort(achromatic, "byColor")

\* a switch whose default falls into the newest order
sortPanels_defaultNewest(ps, mode) ==
    CASE mode = "oldest" -> sort(ps, "cmpOldest")
      [] mode \in {"phash", "ahash", "dhash"} -> sortByHash(ps, mode)
      [] mode = "color" -> sortByColor(ps)
      [] OTHER -> sort(ps, "cmpNewest")

sortPanels(ps, mode) ==
    LET sorted == ps     \* const sorted = [...panels]
    IN  CASE mode = "newest" -> sort(sorted, "cmpNewest")
          [] mode = "oldest" -> sort(sorted, "cmpOldest")
          [] mode \in {"phash", "ahash", "dhash"} -> sortByHash(sorted, mode)
          [] mode = "color" -> sortByColor(sorted)
          [] OTHER -> sorted

\* the argument array had sortPanels sorted it in place
sortPanels_panels_inPlace(ps, mode) == sortPanels(ps, mode)

\* the argument array of sortPanels when it returns: every write goes to the
\* copy made on entry
sortPanels_panels(ps, mode) == ps

(* components/MasonryGrid.tsx *)

\* lengths are integers in units of 1/UNIT px; UNIT makes every division of
\* the layout exact for 2 or 3 columns and panel widths up to 6
UNIT == 6 * 6

GAP == 4 * UNIT

\* 3 / 4, as <<numerator, denominator>>
DEFAULT_ASPECT == <<3, 4>>

\* 1.2, as <<numerator, denominator>>
WIDE_THRESHOLD == <<6, 5>>

getColumnCount(w) == IF w <= 620 THEN 2 ELSE 3

\* panel.width && panel.height && panel.width > 0 && panel.height > 0
hasDimensions(p) ==
    /\ p.width # None /\ p.width[1] # 0
    /\ p.height # None /\ p.height[1] # 0
    /\ p.width[1] > 0 /\ p.height[1] > 0

\* the aspect ratio as <<numerator, denominator>>
getAspect(p) ==
    IF hasDimensions(p) THEN <<p.width[1], p.height[1]>> ELSE DEFAULT_ASPECT

\* an isWide that leaves the threshold itself out
isWide_strict(p) ==
    getAspect(p)[1] * WIDE_THRESHOLD[2] > WIDE_THRESHOLD[1] * getAspect(p)[2]

isWide(p) ==
    getAspect(p)[1] * WIDE_THRESHOLD[2] >= WIDE_THRESHOLD[1] * getAspect(p)[2]

\* len / aspect
divAspect(len, aspect) == (len * aspect[2]) \div aspect[1]

\* colWidth of computeLayout, containerWidth in px
colWidthOf(colCount, cw) == (cw * UNIT - GAP * (colCount - 1)) \div colCount

\* a colX that leaves the gaps between the columns out
colX_noGap(col, colWidth) == col * colWidth

\* colX(col), col counted from 0
colX(col, colWidth) == col * (colWidth + GAP)

\* a pair loop whose ties go to the rightmost pair
bestStartOf_rightmost(hs, colCount) ==
    LET maxH(s) == Max2(hs[s + 1], hs[s + 2])
    IN  CHOOSE s \in 0..(colCount - 2) :
            \A t \in 0..(colCount - 2) : maxH(s) < maxH(t) \/ (maxH(s) = maxH(t) /\ s >= t)

\* the pair loop of the wide branch: the leftmost start s of the adjacent
\* pair with the smallest max height (maxH < bestMaxH is strict)
bestStartOf(hs, colCount) ==
    LET maxH(s) == Max2(hs[s + 1], hs[s + 2])
    IN  CHOOSE s \in 0..(colCount - 2) :
            \A t \in 0..(colCount - 2) : maxH(s) < maxH(t) \/ (maxH(s) = maxH(t) /\ s <= t)

\* a shortest-column loop whose ties go to the highest index
shortestCol_rightmost(hs, colCount) ==
    CHOOSE c \in 0..(colCount - 1) :
        \A d \in 0..(colCount - 1) : hs[c + 1] < hs[d + 1] \/ (hs[c + 1] = hs[d + 1] /\ c >= d)

\* the shortest-column loop of the normal branch: lowest index of minimum height
shortestCol(hs, colCount) ==
    CHOOSE c \in 0..(colCount - 1) :
        \A d \in 0..(colCount - 1) : hs[c + 1] < hs[d + 1] \/ (hs[c + 1] = hs[d + 1] /\ c <= d)

\* a wide branch that advances the left column of the pair only
placeWide_leftOnly(st, panel, colCount, colWidth) ==
    LET hs == st.heights
        col1 == bestStartOf(hs, colCount)
        tallest == Max2(hs[col1 + 1], hs[col1 + 2])
        spanW == colWidth * 2 + GAP
        newH == tallest + divAspect(spanW, getAspect(panel)) + GAP
    IN  [heights |-> [c \in DOMAIN hs |-> IF c = col1 + 1 THEN newH ELSE hs[c]],
         items |-> Append(st.items,
                          [kind |-> "panel", panel |-> panel,
                           x |-> colX(col1, colWidth), y |-> tallest, w |-> spanW])]

\* a wide branch that levels the pair with a filler in its left column
\* whenever the two heights differ
placeWide_fillsLeft(st, panel, colCount, colWidth) ==
    LET hs == st.heights
        col1 == bestStartOf(hs, colCount)
        col2 == col1 + 1
        tallest == Max2(hs[col1 + 1], hs[col2 + 1])
        fillerL == IF hs[col1 + 1] # hs[col2 + 1]
                   THEN <<[kind |-> "filler", key |-> <<"filler", panel.id, "L">>,
                           x |-> colX(col1, colWidth), y |-> hs[col1 + 1],
                           w |-> colWidth, h |-> tallest - hs[col1 + 1]]>>
                   ELSE <<>>
        spanW == colWidth * 2 + GAP
        newH == tallest + divAspect(spanW, getAspect(panel)) + GAP
    IN  [heights |-> [c \in DOMAIN hs |->
                         IF c = col1 + 1 \/ c = col2 + 1 THEN newH ELSE hs[c]],
         items |-> st.items \o fillerL \o
                   <<[kind |-> "panel", panel |-> panel,
                      x |-> colX(col1, colWidth), y |-> tallest, w |-> spanW]>>]

\* the wide branch of the loop body
placeWide(st, panel, colCount, colWidth) ==
    LET hs == st.heights
        col1 == bestStartOf(hs, colCount)
        col2 == col1 + 1
        tallest == Max2(hs[col1 + 1], hs[col2 + 1])
        fillerL == IF hs[col1 + 1] < tallest
                   THEN <<[kind |-> "filler", key |-> <<"filler", panel.id, "L">>,
                           x |-> colX(col1, colWidth), y |-> hs[col1 + 1],
                           w |-> colWidth, h |-> tallest - hs[col1 + 1]]>>
                   ELSE <<>>
        fillerR == IF hs[col2 + 1] < tallest
                   THEN <<[kind |-> "filler", key |-> <<"filler", panel.id, "R">>,
                           x |-> colX(col2, colWidth), y |-> hs[col2 + 1],
                           w |-> colWidth, h |-> tallest - hs[col2 + 1]]>>
                   ELSE <<>>
        spanW == colWidth * 2 + GAP
        panelH == divAspect(spanW, getAspect(panel))
        newH == tallest + panelH + GAP
    IN  [heights |-> [c \in DOMAIN hs |->
                         IF c = col1 + 1 \/ c = col2 + 1 THEN newH ELSE hs[c]],
         items |-> st.items \o fillerL \o fillerR \o
                   <<[kind |-> "panel", panel |-> panel,
                      x |-> colX(col1, colWidth), y |-> tallest, w |-> spanW]>>]

\* a normal branch without the preference of the first panel for column 0
placeNormal_noPin(st, panel, idx, colCount, colWidth) ==
    LET hs == st.heights
        targetCol == shortestCol(hs, colCount)
        panelH == divAspect(colWidth, getAspect(panel))
    IN  [heights |-> [c \in DOMAIN hs |->
                         IF c = targetCol + 1 THEN hs[c] + panelH + GAP ELSE hs[c]],
         items |-> Append(st.items,
                          [kind |-> "panel", panel |-> panel,
                           x |-> colX(targetCol, colWidth), y |-> hs[targetCol + 1],
                           w |-> colWidth])]

\* the normal branch of the loop body; idx counted from 0
placeNormal(st, panel, idx, colCount, colWidth) ==
    LET hs == st.heights
        shortest == shortestCol(hs, colCount)
        minH == hs[shortest + 1]
        renderedH == divAspect(colWidth, getAspect(panel))
        targetCol == IF idx = 0 /\ hs[1] - minH <= renderedH THEN 0 ELSE shortest
        panelH == divAspect(colWidth, getAspect(panel))
    IN  [heights |-> [c \in DOMAIN hs |->
                         IF c = targetCol + 1 THEN hs[c] + panelH + GAP ELSE hs[c]],
         items |-> Append(st.items,
                          [kind |-> "panel", panel |-> panel,
                           x |-> colX(targetCol, colWidth), y |-> hs[targetCol + 1],
                           w |-> colWidth])]

\* an iteration that treats every panel as the first of the sequence
computeLayout_step_allFirst(st, panel, idx, colCount, colWidth) ==
    IF isWide(panel) /\ colCount >= 2
    THEN placeWide(st, panel, colCount, colWidth)
    ELSE placeNormal(st, panel, 0, colCount, colWidth)

\* one iteration of the for-loop of computeLayout; idx counted from 0
computeLayout_step(st, panel, idx, colCount, colWidth) ==
    IF isWide(panel) /\ colCount >= 2
    THEN placeWide(st, panel, colCount, colWidth)
    ELSE placeNormal(st, panel, idx, colCount, colWidth)

RECURSIVE computeLayout_loop(_, _, _, _, _)
computeLayout_loop(st, ps, idx, colCount, colWidth) ==
    IF idx >= Len(ps) THEN st
    ELSE CHOOSE r \in {computeLayout_loop(next, ps, idx + 1, colCount, colWidth) :
                           next \in {computeLayout_step(st, ps[idx + 1], idx,
                                                        colCount, colWidth)}} : TRUE

\* the height of the last column for the total
maxOf0_lastColumn(hs) == IF hs = <<>> THEN 0 ELSE hs[Len(hs)]

\* Math.max(...heights, 0)
maxOf0(hs) == CHOOSE m \in Range(hs) \cup {0} : \A v \in Range(hs) \cup {0} : m >= v

\* a computeLayout whose column tracker starts at zero in every column
computeLayout_zeroStart(ps, colCount, cw, ih) ==
    CHOOSE r \in
        {[items |-> final.items, totalHeight |-> maxOf0(final.heights),
          heights |-> final.heights] :
             final \in {computeLayout_loop([heights |-> [c \in DOMAIN ih |-> 0], items |-> <<>>],
                                           ps, 0, colCount, colWidthOf(colCount, cw))}} : TRUE

\* computeLayout; heights is the local column tracker when the function
\* returns (the function itself returns items and totalHeight)
computeLayout(ps, colCount, cw, ih) ==
    CHOOSE r \in
        {[items |-> final.items, totalHeight |-> maxOf0(final.heights),
          heights |-> final.heights] :
             final \in {computeLayout_loop([heights |-> ih, items |-> <<>>],  \* [...initialHeights]
                                           ps, 0, colCount, colWidthOf(colCount, cw))}} : TRUE

\* the argument arrays of computeLayout when it returns: panels is only read
\* and the height tracker is a copy of initialHeights
computeLayout_panels(ps, colCount, cw, ih) == ps

computeLayout_initialHeights(ps, colCount, cw, ih) == ih

\* the initialHeights array built by layout(); a ref is None while its
\* element is not mounted, else Some(offsetHeight in px)
layout_initialHeights(cc, fRef, sRef) ==
    [c \in 1..cc |->
        IF c = cc /\ sRef # None /\ cc - 1 # 0 THEN sRef[1] * UNIT + GAP
        ELSE IF c = 1 /\ fRef # None THEN fRef[1] * UNIT + GAP
        ELSE 0]

(* The worker: index.ts (the fetch handler), caption.ts, telegram.ts, github.ts *)

\* parseInt(s, 10) on the numerals captions are written with; None is NaN
parseInt10(s) ==
    CASE s = "1" -> Some(1)
      [] s = "2012" -> Some(2012)
      [] OTHER -> None

\* parseCaption; a caption is the list of its trimmed "//" parts, and a
\* caption of fewer than four parts is one the freeform pattern does not match
parseCaption(caption) ==
    IF Len(caption) >= 4
    THEN IF parseInt10(caption[2]) = None
         THEN [ok |-> FALSE, error |-> "Invalid issue number"]
         ELSE IF parseInt10(caption[3]) = None
              THEN [ok |-> FALSE, error |-> "Invalid year"]
              ELSE [ok |-> TRUE, title |-> caption[1], issue |-> parseInt10(caption[2])[1],
                    year |-> parseInt10(caption[3])[1], artist |-> caption[4]]
    ELSE [ok |-> FALSE, error |-> "Could not parse caption"]

\* slugify, on the titles captions are written with
slugify(text) ==
    CASE text = "Saga" -> "saga"
      [] text = "Y: The Last Man" -> "y-the-last-man"
      [] OTHER -> text

\* what one run of the fetch handler does: the status of its response and
\* its calls to downloadFile, commitFile, updateGalleryJson and sendReply.
\* failAt names the call that fails in this run ("none": all succeed);
\* timestamp is Math.floor(Date.now() / 1000)
fetch_run(request, env, failAt, timestamp) ==
    LET quiet(code) ==
            [status |-> code, downloaded |-> FALSE, image |-> None, entry |-> None,
             replies |-> <<>>]
        message == request.message[1]
        reply(kind) == <<[chat |-> message.chat, kind |-> kind]>>
        metadata == parseCaption(message.caption[1])
        slug == slugify(metadata.title)
        repoImagePath == <<"public/images", slug, metadata.issue, timestamp>>
        id == <<slug, metadata.issue, timestamp>>
    IN  IF request.method # "POST" THEN quiet(200)
        ELSE IF env.WEBHOOK_SECRET # None /\ request.secret # env.WEBHOOK_SECRET
        THEN quiet(403)
        ELSE IF request.message = None THEN quiet(200)
        ELSE IF message.chat # env.TELEGRAM_ALLOWED_CHAT_ID THEN quiet(200)
        ELSE IF message.photo /\ message.caption = None
        THEN [quiet(200) EXCEPT !.replies = reply("reminder")]
        ELSE IF ~message.photo \/ message.caption = None THEN quiet(200)
        ELSE IF ~metadata.ok
        THEN [quiet(200) EXCEPT !.replies = reply("error")]
        ELSE IF failAt = "downloadFile"
        THEN [quiet(200) EXCEPT !.replies = reply("error")]
        ELSE IF failAt = "commitFile"
        THEN [quiet(200) EXCEPT !.downloaded = TRUE, !.replies = reply("error")]
        ELSE IF failAt = "updateGalleryJson"
        THEN [quiet(200) EXCEPT !.downloaded = TRUE, !.image = Some(repoImagePath),
                                !.replies = reply("error")]
        ELSE [quiet(200) EXCEPT !.downloaded = TRUE, !.image = Some(repoImagePath),
                                !.entry = Some(id), !.replies = reply("added")]

(* Bounds and the inputs drawn within them *)

MaxFilterPanels == 3

MaxSortPanels == 4

MaxLayoutPanels == 5

\* the requests one worker handles
MaxRequests == 2

\* the chat the bot is set up for
AllowedChat == "-1001"

\* the Env of a deployment with WEBHOOK_SECRET set, and of one without
SecretEnv == [WEBHOOK_SECRET |-> Some("s3cret"), TELEGRAM_ALLOWED_CHAT_ID |-> AllowedChat]

Envs == {SecretEnv, [SecretEnv EXCEPT !.WEBHOOK_SECRET = None]}

\* captions: well-formed, with an issue that is no number, and unparseable
Captions ==
    {<<"Saga", "1", "2012", "Fiona Staples">>,
     <<"Saga", "one", "2012", "Fiona Staples">>,
     <<"hello">>}

\* message of an update: from the allowed chat or another, with or without a
\* photo and a caption
Messages ==
    [chat : {AllowedChat, "-2002"}, photo : BOOLEAN,
     caption : {None} \cup {Some(c) : c \in Captions}]

\* requests: a GET, and POSTs with the X-Telegram-Bot-Api-Secret-Token header
\* absent, right or wrong, carrying an update with or without a message
Requests ==
    {[method |-> "GET", secret |-> None, message |-> None]} \cup
    [method : {"POST"}, secret : {None, Some("s3cret"), Some("guess")},
     message : {None} \cup {Some(m) : m \in Messages}]

\* the call of the handler that fails in a run
FailAt == {"none", "downloadFile", "commitFile", "updateGalleryJson"}

\* a panel record; id is filled in from the position in gallery.json
BasePanel ==
    [id |-> 0, year |-> 1990, artist |-> "A", postedBy |-> "u1", tags |-> Some(<<>>),
     addedAt |-> <<1, 0>>, width |-> Some(3), height |-> Some(4),
     phash |-> <<>>, ahash |-> <<>>, dhash |-> <<>>,
     dominantColors |-> None, colorfulness |-> None]

FilterProfile(year, artist, postedBy, tags) ==
    [BasePanel EXCEPT !.year = year, !.artist = artist, !.postedBy = postedBy,
                      !.tags = tags]

\* panels that differ in the four facet dimensions: three years in two
\* decades, tags absent, empty, single, several and repeated; labels are
\* shared between panels, so that counts above one arise
FilterPool ==
    {FilterProfile(1989, "A", "u1", Some(<<"x">>)),
     FilterProfile(1990, "B", "u1", Some(<<"x", "y">>)),
     FilterProfile(1995, "A", "u2", Some(<<"y", "y">>)),
     FilterProfile(1989, "B", "u2", None),
     FilterProfile(1990, "A", "u2", Some(<<>>))}

SortProfile(artist, addedAt, phash, ahash, dhash, colors, colorfulness) ==
    [BasePanel EXCEPT !.artist = artist,
                      !.addedAt = addedAt, !.phash = phash, !.ahash = ahash,
                      !.dhash = dhash, !.dominantColors = colors,
                      !.colorfulness = colorfulness]

\* panels that differ in the sort fields: equal and distinct instants (one
\* written with a UTC offset), hashes present, absent, of unequal length and
\* at distance zero, palettes absent, empty, of equal and of different hue,
\* colorfulness absent, below, at and above the threshold; two artists
SortPool ==
    {SortProfile("A", <<1, 0>>, <<"0", "0">>, <<"f", "0">>, <<>>,
                 Some(<< <<50, 60, 0>> >>), Some(20)),
     SortProfile("B", <<2, 0>>, <<"f", "f">>, <<"0", "f">>, <<"f">>,
                 Some(<< <<50, 0, 60>> >>), Some(20)),
     SortProfile("A", <<3, 1>>, <<"0", "1">>, <<>>, <<"f", "0">>,
                 None, Some(5)),
     SortProfile("B", <<3, 0>>, <<"0", "3">>, <<"f">>, <<>>,
                 Some(<< <<40, -60, -60>> >>), None),
     SortProfile("A", <<1, 0>>, <<>>, <<>>, <<>>,
                 Some(<<>>), Some(4)),
     SortProfile("B", <<4, 0>>, <<"0">>, <<"0", "0">>, <<"0", "f">>,
                 Some(<< <<50, 60, 0>>, <<10, 0, 0>> >>), Some(5))}

LayoutProfile(width, height) ==
    [BasePanel EXCEPT !.width = width, !.height = height]

\* panels that differ in their dimensions: absent or zero (default aspect),
\* square, wide, and exactly at the wide threshold
LayoutPool ==
    {LayoutProfile(None, None),
     LayoutProfile(Some(1), Some(1)),
     LayoutProfile(Some(2), Some(1)),
     LayoutProfile(Some(6), Some(5))}

\* the panel lists of gallery.json with up to n panels taken from pool, each
\* panel with its own id
PanelLists(pool, n) ==
    UNION {{[i \in 1..k |-> [s[i] EXCEPT !.id = i]] : s \in [1..k -> pool]} : k \in 0..n}

\* the same, with no two panels alike in anything but their id
DistinctPanelLists(pool, n) ==
    {ps \in PanelLists(pool, n) :
        \A i, j \in DOMAIN ps : i # j => [ps[i] EXCEPT !.id = 0] # [ps[j] EXCEPT !.id = 0]}

SORT_OPTIONS == {"newest", "oldest", "phash", "ahash", "dhash", "color"}

\* a sort query parameter that is no SortMode
UnknownSort == "shuffle"

\* the filters parseFiltersFromURL reads from the address: none, or one artist
UrlFilters == {EMPTY_FILTERS, [EMPTY_FILTERS EXCEPT !.artists = {"A"}]}

InnerWidths == {620, 621}

\* offsetWidth of the grid container: laid out, or not yet (zero)
ContainerWidths == {0, 308}

\* offsetHeight of the filter control: collapsed, or expanded
FilterRefs == {None, Some(96), Some(196)}

SortRefs == {None, Some(46)}

\* <<window.innerWidth, container offsetWidth>>
Viewports == {v \in InnerWidths \X ContainerWidths : v[2] = 0 => v[1] = 621}

\* <<filterRef, sortRef>>: the two controls are mounted together
Controls == {c \in FilterRefs \X SortRefs : (c[1] = None) <=> (c[2] = None)}

(* The app: App.tsx renders filteredPanels and sortedPanels (useMemo),       *)
(* FilterControl renders the facets (useMemo), and MasonryGrid's layout     *)
(* effect runs layout() whenever its panels prop changes.  The state        *)
(* variables hold the content of the arrays and sets as the calls left it.  *)

\* MasonryGrid layout(): measures the DOM and runs computeLayout on sp
LayoutPass(sp, iw, cw, fr, sr) ==
    \E cc \in {getColumnCount(iw)} :
    \E ih \in {layout_initialHeights(cc, fr, sr)} :
    \E result \in {computeLayout(sp, cc, cw, ih)} :
        /\ innerWidth' = iw
        /\ containerWidth' = cw
        /\ filterRef' = fr
        /\ sortRef' = sr
        /\ argsComputeLayout' =
               [panels |-> sp, colCount |-> cc, containerWidth |-> cw, initialHeights |-> ih]
        /\ sortedPanels' = computeLayout_panels(sp, cc, cw, ih)
        /\ initialHeights' = computeLayout_initialHeights(sp, cc, cw, ih)
        /\ placed' = result.items
        /\ totalHeight' = result.totalHeight
        /\ heights' = result.heights

\* App.tsx sortedPanels useMemo, then the layout effect of MasonryGrid
SortPass(fp, m) ==
    /\ sortMode' = m
    /\ argsSortPanels' = [panels |-> fp, mode |-> m]
    /\ filteredPanels' = sortPanels_panels(fp, m)
    /\ \E sp \in {sortPanels(fp, m)} :
           LayoutPass(sp, innerWidth, containerWidth, filterRef, sortRef)

\* App.tsx filteredPanels useMemo and FilterControl's facets useMemo, then
\* everything that depends on filteredPanels
FilterPass(f) ==
    \E ps1 \in {applyFilters_panels(panels, f)} :
    \E f1 \in {applyFilters_filters(panels, f)} :
    \E fp \in {applyFilters(panels, f)} :
        /\ argsApplyFilters' = [panels |-> panels, filters |-> f]
        /\ argsComputeFacets' = [panels |-> ps1, filters |-> f1]
        /\ facets' = computeFacets(ps1, f1)
        /\ panels' = computeFacets_panels(ps1, f1)
        /\ filters' = computeFacets_filters(ps1, f1)
        /\ SortPass(fp, sortMode)

\* the facet table of a Filters key
countsOf(fc, key) ==
    CASE key = "decades" -> fc.decadeCounts
      [] key = "tags" -> fc.tagCounts
      [] key = "artists" -> fc.artistCounts
      [] key = "postedBy" -> fc.postedByCounts

FILTER_KEYS == {"decades", "tags", "artists", "postedBy"}

\* const next = new Set(filters[key]); has ? delete : add
toggled(set, value) == IF value \in set THEN set \ {value} ELSE set \cup {value}

\* FilterControl toggleInSet(key, value), offered for the labels FacetSection lists
toggleInSet(key, value) ==
    /\ value \in DOMAIN countsOf(facets, key)
    /\ \E f \in {[filters EXCEPT ![key] = toggled(filters[key], value)]} : FilterPass(f)
    /\ UNCHANGED <<worker, loadVars>>

\* FilterControl clearAll, offered while a filter is active
clearAll ==
    /\ hasActiveFilters(filters)
    /\ FilterPass(EMPTY_FILTERS)
    /\ UNCHANGED <<worker, loadVars>>

\* SortControl onSort(opt.value)
onSort(mode) ==
    /\ mode \in SORT_OPTIONS
    /\ SortPass(filteredPanels, mode)
    /\ UNCHANGED <<panels, filters, facets, argsApplyFilters, argsComputeFacets, worker, loadVars>>

\* MasonryGrid layout() on a window resize or a resize of the pinned controls
layout(iw, cw, fr, sr) ==
    /\ LayoutPass(sortedPanels, iw, cw, fr, sr)
    /\ UNCHANGED <<panels, filters, sortMode, filteredPanels, facets,
                   argsApplyFilters, argsComputeFacets, argsSortPanels, worker,
                   loadVars>>

\* the repository, the chat and the Telegram file store as the worker's calls
\* left them
worldOf(w) ==
    [downloads |-> w.downloads, images |-> w.images, gallery |-> w.gallery,
     replies |-> w.replies]

\* the worker as deployed with env, before any request
deployed(env) ==
    [env |-> env, handled |-> 0, request |-> None, run |-> None,
     downloads |-> 0, images |-> {}, gallery |-> <<>>, replies |-> <<>>,
     before |-> [downloads |-> 0, images |-> {}, gallery |-> <<>>, replies |-> <<>>]]

\* the worker's fetch handler on one request, from its first line to its
\* response; gallery.panels.unshift(newEntry) puts the entry first
fetch(request, failAt) ==
    /\ worker.handled < MaxRequests
    /\ \E run \in {fetch_run(request, worker.env, failAt, worker.handled)} :
           worker' =
               [worker EXCEPT
                   !.handled = @ + 1,
                   !.request = Some(request),
                   !.run = Some(run),
                   !.before = worldOf(worker),
                   !.downloads = IF run.downloaded THEN @ + 1 ELSE @,
                   !.images = IF run.image = None THEN @ ELSE @ \cup {run.image[1]},
                   !.gallery = IF run.entry = None THEN @ ELSE <<run.entry[1]>> \o @,
                   !.replies = @ \o run.replies]
    /\ UNCHANGED <<appVars, loadVars>>

(* App.tsx: the fetch of gallery.json and the preload effect *)

\* const showSpinner = status === "loading" || (status === "ready" && !imagesLoaded)
showSpinner == status = "loading" \/ (status = "ready" /\ ~imagesLoaded)

\* the condition <EmptyState /> is rendered under
showEmptyState == status = "ready" /\ Len(panels) = 0 /\ ~showSpinner

\* the preload effect before it has run
idle == [pending |-> {}, timeout |-> "none", cancelled |-> FALSE, settled |-> FALSE]

\* the app once a gallery of ps has been fetched and its preloads are
\* through: the effect does not run for an empty gallery
loaded(ps) ==
    /\ status = "ready"
    /\ res = [ok |-> TRUE, data |-> ps]
    /\ imagesLoaded = (Len(ps) # 0)
    /\ preload = IF Len(ps) = 0 THEN idle
                 ELSE [pending |-> {}, timeout |-> "cleared", cancelled |-> FALSE,
                       settled |-> TRUE]

\* the render that follows setPanels(data.panels): the memos and the layout
\* over the fetched panels
LoadPass(ps) ==
    \E ps1 \in {applyFilters_panels(ps, filters)} :
    \E f1 \in {applyFilters_filters(ps, filters)} :
    \E fp \in {applyFilters(ps, filters)} :
        /\ argsApplyFilters' = [panels |-> ps, filters |-> filters]
        /\ argsComputeFacets' = [panels |-> ps1, filters |-> f1]
        /\ facets' = computeFacets(ps1, f1)
        /\ panels' = computeFacets_panels(ps1, f1)
        /\ filters' = computeFacets_filters(ps1, f1)
        /\ SortPass(fp, sortMode)

\* the then-chain of the fetch on an ok response: setPanels, setStatus, and
\* the preload effect that runs after the render (timer armed, one Image per
\* panel) unless the gallery is empty
galleryFulfilled ==
    /\ status = "loading"
    /\ res.ok
    /\ LoadPass(res.data)
    /\ status' = "ready"
    /\ preload' = IF Len(res.data) = 0 THEN preload
                  ELSE [pending |-> DOMAIN res.data, timeout |-> "armed",
                        cancelled |-> FALSE, settled |-> FALSE]
    /\ UNCHANGED <<imagesLoaded, res, worker>>

\* the catch of the fetch: the response is not ok
galleryRejected ==
    /\ status = "loading"
    /\ ~res.ok
    /\ status' = "error"
    /\ UNCHANGED <<appVars, imagesLoaded, res, preload, worker>>

\* img.onload or img.onerror of the i-th panel's image: resolve()
imageSettled(i) ==
    /\ i \in preload.pending
    /\ preload' = [preload EXCEPT !.pending = @ \ {i}]
    /\ UNCHANGED <<appVars, status, imagesLoaded, res, worker>>

\* the then of Promise.all(promises)
preloadsSettled ==
    /\ preload.timeout # "none"
    /\ preload.pending = {}
    /\ ~preload.settled
    /\ preload' = [preload EXCEPT
                      !.settled = TRUE,
                      !.timeout = IF ~preload.cancelled /\ @ = "armed" THEN "cleared" ELSE @]
    /\ imagesLoaded' = IF ~preload.cancelled THEN TRUE ELSE imagesLoaded
    /\ UNCHANGED <<appVars, status, res, worker>>

\* the callback of setTimeout(..., 8000)
timeoutFired ==
    /\ preload.timeout = "armed"
    /\ preload' = [preload EXCEPT !.timeout = "fired"]
    /\ imagesLoaded' = IF ~preload.cancelled THEN TRUE ELSE imagesLoaded
    /\ UNCHANGED <<appVars, status, res, worker>>

\* the first render of ps with filters f and sort mode m, and the first layout
FirstRender(ps, f, m, iw, cw, fr, sr) ==
    \E ps1 \in {applyFilters_panels(ps, f)} :
    \E f1 \in {applyFilters_filters(ps, f)} :
    \E fp \in {applyFilters(ps, f)} :
    \E sp \in {sortPanels(fp, m)} :
    \E cc \in {getColumnCount(iw)} :
    \E ih \in {layout_initialHeights(cc, fr, sr)} :
    \E result \in {computeLayout(sp, cc, cw, ih)} :
        /\ argsApplyFilters = [panels |-> ps, filters |-> f]
        /\ argsComputeFacets = [panels |-> ps1, filters |-> f1]
        /\ facets = computeFacets(ps1, f1)
        /\ panels = computeFacets_panels(ps1, f1)
        /\ filters = computeFacets_filters(ps1, f1)
        /\ sortMode = m
        /\ argsSortPanels = [panels |-> fp, mode |-> m]
        /\ filteredPanels = sortPanels_panels(fp, m)
        /\ innerWidth = iw
        /\ containerWidth = cw
        /\ filterRef = fr
        /\ sortRef = sr
        /\ argsComputeLayout =
               [panels |-> sp, colCount |-> cc, containerWidth |-> cw, initialHeights |-> ih]
        /\ sortedPanels = computeLayout_panels(sp, cc, cw, ih)
        /\ initialHeights = computeLayout_initialHeights(sp, cc, cw, ih)
        /\ placed = result.items
        /\ totalHeight = result.totalHeight
        /\ heights = result.heights

(* The filter engine under the filter controls *)

InitFilter ==
    /\ \E ps \in DistinctPanelLists(FilterPool, MaxFilterPanels) :
           FirstRender(ps, EMPTY_FILTERS, "newest", 621, 308, Some(96), Some(46)) /\ loaded(ps)
    /\ worker = deployed(SecretEnv)

NextFilter ==
    \/ \E key \in FILTER_KEYS : \E value \in DOMAIN countsOf(facets, key) :
           toggleInSet(key, value)
    \/ clearAll

SpecFilter == InitFilter /\ [][NextFilter]_vars

(* The order engine under the sort control *)

InitSort ==
    /\ \E ps \in DistinctPanelLists(SortPool, MaxSortPanels) :
           \E f \in UrlFilters, m \in {"newest", UnknownSort} :
               FirstRender(ps, f, m, 621, 308, Some(96), Some(46)) /\ loaded(ps)
    /\ worker = deployed(SecretEnv)

NextSort == \E mode \in SORT_OPTIONS : onSort(mode)

SpecSort == InitSort /\ [][NextSort]_vars

(* The packer under resizes *)

InitLayout ==
    /\ \E ps \in PanelLists(LayoutPool, MaxLayoutPanels) :
           \E v \in Viewports :
               FirstRender(ps, EMPTY_FILTERS, "oldest", v[1], v[2], None, None) /\ loaded(ps)
    /\ worker = deployed(SecretEnv)

NextLayout ==
    \E v \in Viewports, c \in Controls :
        layout(v[1], v[2], c[1], c[2])

SpecLayout == InitLayout /\ [][NextLayout]_vars

(* The bot under the requests that reach its URL *)

InitWebhook ==
    /\ FirstRender(<<>>, EMPTY_FILTERS, "newest", 621, 308, Some(96), Some(46))
    /\ loaded(<<>>)
    /\ \E env \in Envs : worker = deployed(env)

NextWebhook == \E request \in Requests, failAt \in FailAt : fetch(request, failAt)

SpecWebhook == InitWebhook /\ [][NextWebhook]_vars

(* The app from its mount to the gallery on screen *)

\* what the fetch of data/gallery.json may come back with
Responses ==
    {[ok |-> FALSE, data |-> <<>>]} \cup
    {[ok |-> TRUE, data |-> ps] : ps \in DistinctPanelLists(FilterPool, MaxFilterPanels)}

InitLoad ==
    /\ FirstRender(<<>>, EMPTY_FILTERS, "newest", 621, 308, Some(96), Some(46))
    /\ worker = deployed(SecretEnv)
    /\ status = "loading"
    /\ imagesLoaded = FALSE
    /\ preload = idle
    /\ res \in Responses

NextLoad ==
    \/ galleryFulfilled
    \/ galleryRejected
    \/ \E i \in 1..MaxFilterPanels : imageSettled(i)
    \/ preloadsSettled
    \/ timeoutFired

\* a timer that is armed fires, and the then of a settled Promise.all runs;
\* an image may never settle, and the response may never come
SpecLoad ==
    /\ InitLoad
    /\ [][NextLoad]_vars
    /\ WF_vars(timeoutFired)
    /\ WF_vars(preloadsSettled)

(* Properties of the filter engine *)

\* the set of tags a panel carries; none when tags is absent or empty
TagSet(p) == IF p.tags = None THEN {} ELSE Range(p.tags[1])

\* the labels a panel carries in a dimension
LabelsOf(p, key) ==
    CASE key = "decades" -> {getDecade(p.year)}
      [] key = "tags" -> TagSet(p)
      [] key = "artists" -> {p.artist}
      [] key = "postedBy" -> {p.postedBy}

\* the panel satisfies dimension key of f: no selection, or one of its labels selected
MatchesDim(p, f, key) == f[key] = {} \/ LabelsOf(p, key) \cap f[key] # {}

MatchesAll(p, f) == \A key \in FILTER_KEYS : MatchesDim(p, f, key)

\* the position of a panel of gallery.json (ids are unique)
PosIn(s, p) == CHOOSE i \in DOMAIN s : s[i] = p

\* C1: applyFilters keeps a panel if and only if it matches every dimension
\* whose selection is non-empty (decade label, artist, postedBy, at least one
\* tag); a panel with no tags is dropped whenever the tag selection is non-empty.
C1_KeepsExactlyTheMatching ==
    /\ \A i \in DOMAIN panels :
           (panels[i] \in Range(filteredPanels)) <=> MatchesAll(panels[i], filters)
    /\ \A i \in DOMAIN panels :
           (TagSet(panels[i]) = {} /\ filters.tags # {})
               => panels[i] \notin Range(filteredPanels)

\* C1 witness: tags and another dimension are selected; a panel without tags
\* is dropped, a panel with a selected tag is dropped by the other dimension,
\* and a panel is kept.
C1_Witness ==
    /\ filters.tags # {}
    /\ filters.postedBy # {}
    /\ \E i \in DOMAIN panels :
           TagSet(panels[i]) = {} /\ panels[i] \notin Range(filteredPanels)
    /\ \E i \in DOMAIN panels :
           /\ TagSet(panels[i]) \cap filters.tags # {}
           /\ panels[i].postedBy \notin filters.postedBy
           /\ panels[i] \notin Range(filteredPanels)
    /\ filteredPanels # <<>>

\* C2: applyFilters returns a subsequence of its input (every returned panel
\* is an input panel, in strictly increasing input position, so none is
\* added or duplicated), and the whole input in order when no selection is made.
C2_ReturnsSubsequence ==
    /\ \A k \in DOMAIN filteredPanels : filteredPanels[k] \in Range(panels)
    /\ \A k, l \in DOMAIN filteredPanels :
           k < l => PosIn(panels, filteredPanels[k]) < PosIn(panels, filteredPanels[l])
    /\ filters = EMPTY_FILTERS => filteredPanels = panels

\* C2 witness: with a selection made, a panel is dropped from between two
\* kept panels.
C2_Witness ==
    /\ hasActiveFilters(filters)
    /\ Len(panels) = 3
    /\ filteredPanels = <<panels[1], panels[3]>>

\* every label of a dimension that a panel of the pool carries, and one none carries
AllLabels(key) == UNION {LabelsOf(p, key) : p \in FilterPool} \cup {"none"}

\* the count FacetSection shows for a label (no entry: not shown, zero)
CountOf(key, L) == MapGet0(countsOf(facets, key), L)

\* how often a panel lists a label: once per occurrence in its tag list
Occurrences(p, key, L) ==
    IF key = "tags"
    THEN Cardinality({i \in DOMAIN tagsOrEmpty(p) : tagsOrEmpty(p)[i] = L})
    ELSE IF L \in LabelsOf(p, key) THEN 1 ELSE 0

RECURSIVE ListingsFrom(_, _, _, _)
ListingsFrom(ps, key, L, i) ==
    IF i > Len(ps) THEN 0
    ELSE Occurrences(ps[i], key, L) + ListingsFrom(ps, key, L, i + 1)

\* how often the panels of a list list a label
Listings(ps, key, L) == ListingsFrom(ps, key, L, 1)

\* C3 (as stated): for every dimension D and label L, the computeFacets count
\* of L is the number of panels that carry L in D and satisfy every other
\* dimension with a non-empty selection, whatever D's own selection is
C3_CountIsNumberOfPanels ==
    \A key \in FILTER_KEYS : \A L \in AllLabels(key) :
        CountOf(key, L) =
            Cardinality({i \in DOMAIN panels :
                /\ L \in LabelsOf(panels[i], key)
                /\ MatchesAll(panels[i], [filters EXCEPT ![key] = {}])})

C5_SelectedCountCoversRemoval ==
    /\ \A key \in FILTER_KEYS : \A L \in AllLabels(key) : CountOf(key, L) >= 0
    /\ \A key \in FILTER_KEYS : \A L \in filters[key] :
           CountOf(key, L) >=
               Len(applyFilters(panels, [filters EXCEPT ![key] = @ \ {L}]))

\* C5 (amended): every count is non-negative, and the count of a label L
\* selected in dimension D is at least the number of panels carrying L that
\* applyFilters returns under the current selection
C5_SelectedCountCoversVisible ==
    /\ \A key \in FILTER_KEYS : \A L \in AllLabels(key) : CountOf(key, L) >= 0
    /\ \A key \in FILTER_KEYS : \A L \in DOMAIN countsOf(facets, key) :
           countsOf(facets, key)[L] >= 0
    /\ \A key \in FILTER_KEYS : \A L \in filters[key] :
           CountOf(key, L) >=
               Cardinality({k \in DOMAIN applyFilters(panels, filters) :
                   L \in LabelsOf(applyFilters(panels, filters)[k], key)})

\* C5 witness: a selected label whose count is below the number of panels
\* returned once it is removed, while several visible panels carry it
C5_Witness ==
    \E key \in FILTER_KEYS : \E L \in filters[key] :
        /\ CountOf(key, L) <
               Len(applyFilters(panels, [filters EXCEPT ![key] = @ \ {L}]))
        /\ Cardinality({k \in DOMAIN filteredPanels :
               L \in LabelsOf(filteredPanels[k], key)}) >= 2

(* Properties of the order engine *)

\* the instant an addedAt timestamp names: its local time less its UTC offset
Instant(p) == p.addedAt[1] - p.addedAt[2]

\* a comes before b in the list handed to sortPanels
Incoming(a, b) == PosIn(filteredPanels, a) < PosIn(filteredPanels, b)

\* C6: in each of the six sort modes sortPanels returns a permutation of its
\* input: the same length and every input panel exactly once, also when some
\* or all panels lack the hash or the color fields
C6_ReturnsPermutation ==
    sortMode \in SORT_OPTIONS =>
        /\ Len(sortedPanels) = Len(filteredPanels)
        /\ \A i \in DOMAIN filteredPanels :
               Cardinality({k \in DOMAIN sortedPanels :
                               sortedPanels[k] = filteredPanels[i]}) = 1
        /\ \A k \in DOMAIN sortedPanels : sortedPanels[k] \in Range(filteredPanels)

\* C6 witness: a hash mode has reordered a list in which some panels carry
\* the hash and some do not
C6_Witness ==
    /\ sortMode = "dhash"
    /\ Cardinality({i \in DOMAIN filteredPanels : filteredPanels[i].dhash # <<>>}) >= 2
    /\ \E i \in DOMAIN filteredPanels : filteredPanels[i].dhash = <<>>
    /\ \E i \in DOMAIN filteredPanels : filteredPanels[i].dominantColors = None
    /\ sortedPanels # filteredPanels

\* C7: newest orders by addedAt instant descending and oldest ascending, both
\* keeping the incoming order among panels of equal instant; when all instants
\* differ the newest order is the reverse of the oldest order
C7_OrdersByInstant ==
    /\ sortMode = "newest" =>
           \A k, l \in DOMAIN sortedPanels : k < l =>
               \/ Instant(sortedPanels[k]) > Instant(sortedPanels[l])
               \/ /\ Instant(sortedPanels[k]) = Instant(sortedPanels[l])
                  /\ Incoming(sortedPanels[k], sortedPanels[l])
    /\ sortMode = "oldest" =>
           \A k, l \in DOMAIN sortedPanels : k < l =>
               \/ Instant(sortedPanels[k]) < Instant(sortedPanels[l])
               \/ /\ Instant(sortedPanels[k]) = Instant(sortedPanels[l])
                  /\ Incoming(sortedPanels[k], sortedPanels[l])
    /\ (/\ sortMode = "newest"
        /\ \A i, j \in DOMAIN filteredPanels :
               i # j => Instant(filteredPanels[i]) # Instant(filteredPanels[j]))
           => sortedPanels = Reverse(sortPanels(filteredPanels, "oldest"))

\* C7 witness: the newest order of a list that holds two panels of one instant
\* written with different offsets, and a later panel that came in after them
C7_Witness ==
    /\ sortMode = "newest"
    /\ Len(sortedPanels) >= 3
    /\ sortedPanels # filteredPanels
    /\ \E k \in DOMAIN sortedPanels : k < Len(sortedPanels) /\
           /\ Instant(sortedPanels[k]) = Instant(sortedPanels[k + 1])
           /\ sortedPanels[k].addedAt # sortedPanels[k + 1].addedAt

\* C8: a mode outside the six recognised values leaves the panels in their
\* incoming order
C8_UnknownModeKeepsOrder ==
    sortMode \notin SORT_OPTIONS => sortedPanels = filteredPanels

\* C8 witness: an unrecognised mode on a list that every recognised time
\* order would rearrange
C8_Witness ==
    /\ sortMode \notin SORT_OPTIONS
    /\ Len(filteredPanels) >= 2
    /\ \E i, j \in DOMAIN filteredPanels :
           i < j /\ Instant(filteredPanels[i]) < Instant(filteredPanels[j])
    /\ \E i, j \in DOMAIN filteredPanels :
           i < j /\ Instant(filteredPanels[i]) > Instant(filteredPanels[j])

\* a panel of the achromatic group: colorfulness absent (taken as 0) or below 5
Achromatic(p) == p.colorfulness = None \/ p.colorfulness[1] < 5

\* C9: in color mode every panel of colorfulness 5 or more precedes every
\* panel of colorfulness below 5, a panel without colorfulness counting as 0
C9_ChromaticFirst ==
    sortMode = "color" =>
        \A k, l \in DOMAIN sortedPanels :
            (~Achromatic(sortedPanels[k]) /\ Achromatic(sortedPanels[l])) => k < l

\* C9 witness: color mode moved a panel of colorfulness exactly 5 ahead of a
\* panel without colorfulness and of one with colorfulness 4
C9_Witness ==
    /\ sortMode = "color"
    /\ \E a, b, c \in Range(filteredPanels) :
           /\ a.colorfulness = Some(5)
           /\ b.colorfulness = None
           /\ c.colorfulness = Some(4)
           /\ Incoming(b, a) /\ Incoming(c, a)
           /\ PosIn(sortedPanels, a) < PosIn(sortedPanels, b)
           /\ PosIn(sortedPanels, a) < PosIn(sortedPanels, c)

HASH_MODES == {"phash", "ahash", "dhash"}

\* the panels of a list that carry the hash of the current sort mode
Hashed(ps) == SelectSeq(ps, LAMBDA p : hashOf(p, sortMode) # <<>>)

Unhashed(ps) == SelectSeq(ps, LAMBDA p : hashOf(p, sortMode) = <<>>)

\* the Hamming distance of two panels in the hash of the current sort mode
Distance(a, b) == hammingDistanceHex(hashOf(a, sortMode), hashOf(b, sortMode))

\* C18 (as stated): in a hash mode with two or more hashed panels the output
\* starts with the first hashed panel in incoming order, and every later
\* hashed panel of the output is, among the hashed panels not yet emitted,
\* one of minimum Hamming distance to the panel emitted just before it, the
\* earliest in incoming order among those
C18_WalkFollowsLastEmitted ==
    (sortMode \in HASH_MODES /\ Len(Hashed(filteredPanels)) >= 2) =>
        \A H \in {Hashed(sortedPanels)} :
            /\ H[1] = Hashed(filteredPanels)[1]
            /\ \A k \in 2..Len(H) : \A j \in (k + 1)..Len(H) :
                   \/ Distance(H[k - 1], H[k]) < Distance(H[k - 1], H[j])
                   \/ /\ Distance(H[k - 1], H[k]) = Distance(H[k - 1], H[j])
                      /\ Incoming(H[k], H[j])

\* C19: in a hash mode every panel with a non-empty value of the selected
\* hash precedes every panel without one, and the panels without one come
\* in ascending addedAt order, whatever the number of hashed panels
C19_HashedFirstThenOldest ==
    sortMode \in HASH_MODES =>
        /\ sortedPanels = Hashed(sortedPanels) \o Unhashed(sortedPanels)
        /\ \A U \in {Unhashed(sortedPanels)} :
               \A k, l \in DOMAIN U : k < l => Instant(U[k]) <= Instant(U[l])

\* C19 witness: a single hashed panel that came in last behind two unhashed
\* ones, the later of which came in first
C19_Witness ==
    /\ sortMode \in HASH_MODES
    /\ Len(Hashed(filteredPanels)) = 1
    /\ Len(filteredPanels) = 3
    /\ hashOf(filteredPanels[3], sortMode) # <<>>
    /\ Instant(filteredPanels[1]) > Instant(filteredPanels[2])
    /\ sortedPanels = <<filteredPanels[3], filteredPanels[2], filteredPanels[1]>>

\* the hash strings the panels handed to sortPanels carry, in any of the
\* three fields
HashesOf(ps) ==
    UNION {{ps[i].phash, ps[i].ahash, ps[i].dhash} : i \in DOMAIN ps} \ {<<>>}

\* the bits set in a hex digit, and in the digit at place i of a hash string
\* after padding it with 0 digits
BitsOfDigit ==
    [c \in Range(hexDigits) |->
        {j \in 0..3 : ((CHOOSE v \in 0..15 : hexDigits[v + 1] = c) \div (2 ^ j)) % 2 = 1}]

BitsAt(a, i) == IF i <= Len(a) THEN BitsOfDigit[a[i]] ELSE {}

RECURSIVE DifferingBitsFrom(_, _, _)
DifferingBitsFrom(a, b, i) ==
    IF i > Len(a) /\ i > Len(b) THEN 0
    ELSE Cardinality((BitsAt(a, i) \ BitsAt(b, i)) \cup (BitsAt(b, i) \ BitsAt(a, i)))
         + DifferingBitsFrom(a, b, i + 1)

\* C20: hammingDistanceHex(a, b) is the number of differing bits, summed
\* digit by digit over the longer length with the shorter string padded by
\* trailing 0 digits; it is symmetric, 0 for identical strings, and 8 for
\* "f0" and "0f"
C20_HammingCountsDifferingBits ==
    \A a, b \in HashesOf(filteredPanels) :
        \A dist \in {hammingDistanceHex(a, b)} :
            /\ dist = DifferingBitsFrom(a, b, 1)
            /\ dist = hammingDistanceHex(b, a)
            /\ a = b => dist = 0
            /\ (a = <<"f", "0">> /\ b = <<"0", "f">>) => dist = 8

\* C20 witness: an ahash walk over panels with the hashes "f0", "0f" and
\* the shorter "f"
C20_Witness ==
    /\ sortMode = "ahash"
    /\ {<<"f", "0">>, <<"0", "f">>, <<"f">>} \subseteq
           {filteredPanels[i].ahash : i \in DOMAIN filteredPanels}
    /\ sortedPanels # filteredPanels

\* the most dominant color of a panel is at hue 0 (a* > 0, b* = 0), and at
\* hue pi/2 (a* = 0, b* > 0)
AtHue0(p) ==
    /\ p.dominantColors # None /\ p.dominantColors[1] # <<>>
    /\ p.dominantColors[1][1][2] > 0 /\ p.dominantColors[1][1][3] = 0

AtHueQuarterTurn(p) ==
    /\ p.dominantColors # None /\ p.dominantColors[1] # <<>>
    /\ p.dominantColors[1][1][2] = 0 /\ p.dominantColors[1][1][3] > 0

\* C21: within the chromatic and within the achromatic group the output of
\* color mode ascends in the key hueNorm*1000 + L of the most dominant
\* color, panels without a dominant color come after those with one, and
\* panels of equal key (or both without color) ascend in addedAt; [B, A]
\* with A at hue 0 and B at hue pi/2, both chromatic, comes out as [A, B]
C21_ColorGroupsAscendInKey ==
    sortMode = "color" =>
        /\ \A k, l \in DOMAIN sortedPanels :
               (k < l /\ Achromatic(sortedPanels[k]) = Achromatic(sortedPanels[l])) =>
                   \A ka \in {colorSortKey(sortedPanels[k])} :
                   \A kb \in {colorSortKey(sortedPanels[l])} :
                       \/ ~ka.inf /\ kb.inf
                       \/ ~ka.inf /\ ~kb.inf /\ ka.val < kb.val
                       \/ /\ ka = kb
                          /\ Instant(sortedPanels[k]) <= Instant(sortedPanels[l])
        /\ (/\ Len(filteredPanels) = 2
            /\ AtHueQuarterTurn(filteredPanels[1]) /\ AtHue0(filteredPanels[2])
            /\ ~Achromatic(filteredPanels[1]) /\ ~Achromatic(filteredPanels[2]))
               => sortedPanels = <<filteredPanels[2], filteredPanels[1]>>

\* C21 witness: color mode on three chromatic panels: one at hue pi/2, then
\* two of one key at hue 0 that come in newest first
C21_Witness ==
    /\ sortMode = "color"
    /\ Len(filteredPanels) = 3
    /\ \A i \in 1..3 : ~Achromatic(filteredPanels[i])
    /\ AtHueQuarterTurn(filteredPanels[1])
    /\ AtHue0(filteredPanels[2]) /\ AtHue0(filteredPanels[3])
    /\ colorSortKey(filteredPanels[2]) = colorSortKey(filteredPanels[3])
    /\ Instant(filteredPanels[2]) > Instant(filteredPanels[3])
    /\ sortedPanels = <<filteredPanels[3], filteredPanels[2], filteredPanels[1]>>

(* Properties of the packer *)

\* the column count and column width of the last layout pass
ColCount == argsComputeLayout.colCount

ColWidth == colWidthOf(ColCount, containerWidth)

\* the rendered height of a placed item: a filler carries it, a panel's
\* follows from its width and aspect ratio
ItemHeight(it) ==
    IF it.kind = "filler" THEN it.h ELSE divAspect(it.w, getAspect(it.panel))

\* the column an item starts in, counted from 0
ColOf(it) == CHOOSE c \in 0..(ColCount - 1) : colX(c, ColWidth) = it.x

\* a placed panel that spans two columns
IsSpan(it) == it.kind = "panel" /\ it.w = 2 * ColWidth + GAP

\* the pass as it stands once the first k panels are placed
LayoutOfPrefix(k) ==
    computeLayout(SubSeq(sortedPanels, 1, k), ColCount, containerWidth, initialHeights)

LeadItem ==
    CHOOSE it \in Range(placed) : it.kind = "panel" /\ it.panel = sortedPanels[1]

\* the smallest of the initial column heights
MinInitial ==
    CHOOSE m \in Range(initialHeights) : \A v \in Range(initialHeights) : m <= v

\* C12 (as stated): on every relayout, whatever the initial column heights
\* and the column count, the first panel of the incoming sequence is placed
\* in column 0 (x = 0)
C12_LeadAlwaysInColumn0 ==
    sortedPanels # <<>> => LeadItem.x = 0

\* C12 (amended): the first panel is placed in column 0 exactly when, being
\* narrow, column 0 is a shortest column or stands above the shortest by no
\* more than the panel's rendered height, or, being wide, no pair of
\* adjacent columns further right has a lower taller column than columns 0
\* and 1; so always when the initial heights are equal
C12_LeadInColumn0WhenClose ==
    sortedPanels # <<>> =>
        /\ LeadItem.x = 0 <=>
               IF IsSpan(LeadItem)
               THEN \A s \in 1..(ColCount - 2) :
                        Max2(initialHeights[1], initialHeights[2]) <=
                            Max2(initialHeights[s + 1], initialHeights[s + 2])
               ELSE \/ initialHeights[1] = MinInitial
                    \/ initialHeights[1] - MinInitial <= ItemHeight(LeadItem)
        /\ (\A c \in DOMAIN initialHeights : initialHeights[c] = initialHeights[1])
               => LeadItem.x = 0

\* C12 witness: on a relayout under an expanded filter control a narrow
\* first panel goes to the shortest column, right of column 0
C12_Witness ==
    /\ sortedPanels # <<>>
    /\ containerWidth > 0
    /\ filterRef = Some(196)
    /\ ~IsSpan(LeadItem)
    /\ LeadItem.x > 0
    /\ LeadItem.y = 0

\* the scenario of C13: five square panels, three columns of width 100 in a
\* container of width 308, nothing pinned above the columns
FiveSquaresInThreeColumns ==
    /\ Len(sortedPanels) = 5
    /\ \A i \in DOMAIN sortedPanels :
           sortedPanels[i].width = Some(1) /\ sortedPanels[i].height = Some(1)
    /\ ColCount = 3
    /\ containerWidth = 308
    /\ ColWidth = 100 * UNIT
    /\ initialHeights = <<0, 0, 0>>

\* C13 (as stated): five non-wide panels of aspect 1 in 3 columns of width
\* 100 (container 308, gap 4) over zero initial heights end with column
\* heights [208, 104, 104]
C13_FiveSquaresHeights ==
    FiveSquaresInThreeColumns => heights = <<208 * UNIT, 104 * UNIT, 104 * UNIT>>

\* C13 (amended): the five panels end with column heights [208, 208, 104]:
\* two panels and two gaps in columns 0 and 1, one panel and one gap in
\* column 2
C13_FiveSquaresEndHeights ==
    FiveSquaresInThreeColumns =>
        /\ heights = <<208 * UNIT, 208 * UNIT, 104 * UNIT>>
        /\ totalHeight = 208 * UNIT

\* C13 witness: the scenario was laid out, the panels going to columns
\* 0, 1, 2, 0, 1
C13_Witness ==
    /\ FiveSquaresInThreeColumns
    /\ Len(placed) = 5
    /\ \A i \in DOMAIN placed : ~IsSpan(placed[i])
    /\ [i \in DOMAIN placed |-> ColOf(placed[i])] = <<0, 1, 2, 0, 1>>

\* C14 (as stated): with a container width of zero or a non-positive column
\* count the layout is not ready: no panel or filler is placed and the total
\* height is 0
C14_NotReadyPlacesNothing ==
    (containerWidth = 0 \/ ColCount <= 0) => (placed = <<>> /\ totalHeight = 0)

\* C16: the totalHeight computeLayout returns is the maximum of the final
\* column heights: no column is higher, and no placed filler or panel has
\* its bottom edge (y + height) below it
C16_TotalIsMaxColumn ==
    /\ \E c \in DOMAIN heights : totalHeight = heights[c]
    /\ \A c \in DOMAIN heights : totalHeight >= heights[c]
    /\ \A i \in DOMAIN placed : totalHeight >= placed[i].y + ItemHeight(placed[i])

\* C16 witness: a pass under pinned controls that placed a filler and
\* panels and left the columns at different heights, the last column not
\* the highest
C16_Witness ==
    /\ containerWidth > 0
    /\ initialHeights[1] > 0
    /\ \E i \in DOMAIN placed : placed[i].kind = "filler"
    /\ \E c \in DOMAIN heights : heights[c] < totalHeight
    /\ heights[Len(heights)] < totalHeight
    /\ \E i \in DOMAIN placed :
           placed[i].y + ItemHeight(placed[i]) + GAP = totalHeight

\* the pass panel by panel: entry k + 1 is the column tracker and the items
\* emitted once the first k panels of the sequence are placed
RECURSIVE PassStatesFrom(_)
PassStatesFrom(acc) ==
    IF Len(acc) > Len(sortedPanels) THEN acc
    ELSE CHOOSE r \in
             {PassStatesFrom(next) :
                  next \in {Append(acc, computeLayout_step(acc[Len(acc)],
                                                           sortedPanels[Len(acc)],
                                                           Len(acc) - 1, ColCount, ColWidth))}} : TRUE

PassStates == PassStatesFrom(<<[heights |-> initialHeights, items |-> <<>>]>>)

\* the items emitted for the k-th panel in the pass ps
EmittedFor(ps, k) ==
    SubSeq(ps[k + 1].items, Len(ps[k].items) + 1, Len(ps[k + 1].items))

\* width / height of a panel is at least num / den; 3 / 4 stands in when a
\* dimension is missing or not positive
AspectAtLeast(p, num, den) ==
    IF /\ p.width # None /\ p.height # None
       /\ p.width[1] > 0 /\ p.height[1] > 0
    THEN p.width[1] * den >= num * p.height[1]
    ELSE 3 * den >= num * 4

\* the larger height of the adjacent column pair (s, s + 1) in tracker hs
PairHeight(hs, s) == Max2(hs[s + 1], hs[s + 2])

C23_FillerLevelsShorterColumn ==
    \A ps \in {PassStates} :
        /\ ps[Len(ps)].items = placed
        /\ \A i \in DOMAIN placed :
               placed[i].kind = "filler" =>
                   /\ placed[i].h > 0
                   /\ i < Len(placed) /\ IsSpan(placed[i + 1])
        /\ \A k \in DOMAIN sortedPanels :
               \A em \in {EmittedFor(ps, k)} :
               \A it \in {em[Len(em)]} :
                   /\ it.kind = "panel"
                   /\ \A i \in 1..(Len(em) - 1) : em[i].kind = "filler"
                   /\ ~IsSpan(it) => Len(em) = 1
                   /\ IsSpan(it) =>
                          \A hl \in {ps[k].heights[ColOf(it) + 1]} :
                          \A hr \in {ps[k].heights[ColOf(it) + 2]} :
                              /\ Len(em) <= 2
                              /\ Len(em) = 2 <=> hl # hr
                              /\ Len(em) = 2 =>
                                     /\ em[1].x = colX(IF hl < hr THEN ColOf(it)
                                                       ELSE ColOf(it) + 1, ColWidth)
                                     /\ em[1].y = (IF hl < hr THEN hl ELSE hr)
                                     /\ em[1].w = ColWidth
                                     /\ em[1].h = (IF hl < hr THEN hr - hl ELSE hl - hr)

\* C23 witness: one pass placed a wide panel behind a filler in the right
\* column of its pair, one behind a filler in the left column, and one
\* without a filler
C23_Witness ==
    /\ containerWidth > 0
    /\ \E i, j \in DOMAIN placed :
           /\ placed[i].kind = "filler" /\ placed[j].kind = "filler"
           /\ i + 1 \in DOMAIN placed /\ j + 1 \in DOMAIN placed
           /\ placed[i].x = placed[i + 1].x
           /\ placed[j].x > placed[j + 1].x
    /\ \E i \in DOMAIN placed :
           /\ IsSpan(placed[i])
           /\ i > 1 => placed[i - 1].kind = "panel"

\* C24: a wide panel is placed at the x of the left column of its pair, at
\* y equal to the taller of the two columns' heights before placement, with
\* width 2*colWidth + gap; right after the placement both spanned columns
\* have the height y + (2*colWidth + gap)/aspect + gap and no other
\* column's height has changed
C24_WidePlacedOnTallerOfPair ==
    \A ps \in {PassStates} :
        /\ ps[Len(ps)].items = placed
        /\ \A k \in DOMAIN sortedPanels :
               (AspectAtLeast(sortedPanels[k], 6, 5) /\ ColCount >= 2) =>
                   \A it \in {ps[k + 1].items[Len(ps[k + 1].items)]} :
                       /\ it.panel = sortedPanels[k]
                       /\ it.w = 2 * ColWidth + GAP
                       /\ \E s \in 0..(ColCount - 2) :
                              /\ it.x = s * (ColWidth + GAP)
                              /\ it.y = PairHeight(ps[k].heights, s)
                              /\ ps[k + 1].heights =
                                     [c \in DOMAIN ps[k].heights |->
                                         IF c = s + 1 \/ c = s + 2
                                         THEN it.y + divAspect(2 * ColWidth + GAP,
                                                               getAspect(it.panel)) + GAP
                                         ELSE ps[k].heights[c]]

\* C24 witness: in three columns a wide panel went over columns 1 and 2
\* behind a filler, below the top of the grid, and column 0 stands at
\* another height than the two at the end of the pass
C24_Witness ==
    /\ ColCount = 3
    /\ containerWidth > 0
    /\ placed # <<>>
    /\ Len(placed) > 1
    /\ IsSpan(placed[Len(placed)])
    /\ placed[Len(placed)].x = ColWidth + GAP
    /\ placed[Len(placed)].y > 0
    /\ placed[Len(placed) - 1].kind = "filler"
    /\ heights[2] = heights[3]
    /\ heights[1] # heights[2]

\* five panels of one shape, none wide, for three columns with nothing
\* pinned above them
FiveAlikeInThreeColumns ==
    /\ Len(sortedPanels) = 5
    /\ \A i \in DOMAIN sortedPanels :
           /\ sortedPanels[i].width = sortedPanels[1].width
           /\ sortedPanels[i].height = sortedPanels[1].height
           /\ ~AspectAtLeast(sortedPanels[i], 6, 5)
    /\ ColCount = 3
    /\ initialHeights = <<0, 0, 0>>

\* C25: every non-wide panel but the first of the sequence is placed in the
\* column of smallest current height, the lowest index winning ties, at y
\* equal to that column's height, and only that column grows, by
\* colWidth/aspect + gap; five equal non-wide panels in 3 columns over zero
\* initial heights go to columns 0, 1, 2, 0, 1
C25_NarrowToShortestColumn ==
    \A ps \in {PassStates} :
        /\ ps[Len(ps)].items = placed
        /\ \A k \in DOMAIN sortedPanels :
               (k > 1 /\ ~AspectAtLeast(sortedPanels[k], 6, 5)) =>
                   \A it \in {ps[k + 1].items[Len(ps[k + 1].items)]} :
                   \A hs \in {ps[k].heights} :
                       /\ it.panel = sortedPanels[k]
                       /\ \E c \in 0..(ColCount - 1) :
                              /\ \A d \in 0..(ColCount - 1) :
                                     hs[c + 1] < hs[d + 1] \/ (hs[c + 1] = hs[d + 1] /\ c <= d)
                              /\ it.x = c * (ColWidth + GAP)
                              /\ it.y = hs[c + 1]
                              /\ ps[k + 1].heights =
                                     [d \in DOMAIN hs |->
                                         IF d = c + 1
                                         THEN hs[d] + divAspect(ColWidth, getAspect(it.panel)) + GAP
                                         ELSE hs[d]]
        /\ FiveAlikeInThreeColumns =>
               /\ Len(placed) = 5
               /\ \A i \in 1..5 :
                      placed[i].x = <<0, 1, 2, 0, 1>>[i] * (ColWidth + GAP)

\* C25 witness: five panels without dimensions went to columns 0, 1, 2, 0, 1
\* of three columns of positive width
C25_Witness ==
    /\ FiveAlikeInThreeColumns
    /\ containerWidth > 0
    /\ sortedPanels[1].width = None
    /\ Len(placed) = 5
    /\ [i \in DOMAIN placed |-> placed[i].x] =
           <<0, ColWidth + GAP, 2 * (ColWidth + GAP), 0, ColWidth + GAP>>
    /\ heights[1] = heights[2] /\ heights[3] < heights[2]

\* the first panel of the sequence is not wide
LeadIsNarrow == sortedPanels # <<>> /\ ~AspectAtLeast(sortedPanels[1], 6, 5)

\* column 0 stands above the shortest column by no more than the rendered
\* height (colWidth / aspect) of the first panel
LeadWithinReach ==
    initialHeights[1] - MinInitial <= divAspect(ColWidth, getAspect(sortedPanels[1]))

\* the x of the leftmost of the shortest columns before the pass
ShortestInitialX ==
    CHOOSE x \in {c * (ColWidth + GAP) : c \in 0..(ColCount - 1)} :
        \E c \in 0..(ColCount - 1) :
            /\ x = c * (ColWidth + GAP)
            /\ initialHeights[c + 1] = MinInitial
            /\ \A d \in 0..(c - 1) : initialHeights[d + 1] > MinInitial

\* C26 (as stated): a first panel that is not wide is placed in column 0
\* exactly when column 0's height exceeds the shortest column's by no more
\* than the panel's rendered height; otherwise it goes to the shortest
\* column
C26_LeadInColumn0ExactlyWhenWithinReach ==
    LeadIsNarrow =>
        /\ LeadItem.x = 0 <=> LeadWithinReach
        /\ ~LeadWithinReach => LeadItem.x = ShortestInitialX

\* what the pass does with a first panel that is not wide: column 0 when it
\* is within reach, else the leftmost shortest column, which at a negative
\* rendered height is column 0 again when column 0 is a shortest column;
\* with a positive column width column 0 exactly when within reach
LeadInColumn0WhenWithinReach ==
    LeadIsNarrow =>
        /\ LeadWithinReach => (LeadItem.x = 0 /\ LeadItem.y = initialHeights[1])
        /\ ~LeadWithinReach =>
               (LeadItem.x = ShortestInitialX /\ LeadItem.y = MinInitial)
        /\ ColWidth > 0 => (LeadItem.x = 0 <=> LeadWithinReach)

\* the panel items of the pass, in the order they were emitted
PanelItems == SelectSeq(placed, LAMBDA it : it.kind = "panel")

\* C27: with at least 2 columns computeLayout emits exactly one panel item
\* per input panel, in the order of the input sequence, of width colWidth
\* for a non-wide panel and 2*colWidth + gap for a wide one; every other
\* emitted item is a filler, which carries no panel
C27_OneItemPerPanelInOrder ==
    ColCount >= 2 =>
        /\ Len(PanelItems) = Len(sortedPanels)
        /\ \A k \in DOMAIN sortedPanels :
               /\ PanelItems[k].panel = sortedPanels[k]
               /\ PanelItems[k].w = IF AspectAtLeast(sortedPanels[k], 6, 5)
                                    THEN 2 * ColWidth + GAP
                                    ELSE ColWidth
        /\ \A i \in DOMAIN placed :
               placed[i].kind # "panel" =>
                   (placed[i].kind = "filler" /\ "panel" \notin DOMAIN placed[i])

\* C27 witness: a pass over at least three panels emitted more items than
\* panels: fillers, narrow panels and a panel of aspect exactly 1.2 laid
\* out wide
C27_Witness ==
    /\ ColCount >= 2
    /\ containerWidth > 0
    /\ Len(sortedPanels) >= 3
    /\ Len(placed) > Len(sortedPanels)
    /\ Len(PanelItems) = Len(sortedPanels)
    /\ \E k \in DOMAIN PanelItems :
           /\ PanelItems[k].panel.width = Some(6)
           /\ PanelItems[k].w = 2 * ColWidth + GAP
    /\ \E k \in DOMAIN PanelItems : PanelItems[k].w = ColWidth

\* the columns a placed item occupies, counted from 0
ColsOf(it) == IF IsSpan(it) THEN {ColOf(it), ColOf(it) + 1} ELSE {ColOf(it)}

\* C28: with at least 2 columns of positive width over non-negative initial
\* heights no two placed items overlap: no column height decreases during
\* the pass, every item's y is at least the initial height of each column
\* it occupies, of two items sharing a column the later starts at or below
\* the bottom edge of the earlier, and a gap below it when the earlier is a
\* panel
C28_NoOverlap ==
    (/\ ColCount >= 2 /\ ColWidth > 0
     /\ \A c \in DOMAIN initialHeights : initialHeights[c] >= 0) =>
        \A ps \in {PassStates} :
            /\ ps[Len(ps)].items = placed
            /\ \A k \in DOMAIN sortedPanels :
                   \A c \in DOMAIN initialHeights :
                       ps[k + 1].heights[c] >= ps[k].heights[c]
            /\ \A cols \in {[i \in DOMAIN placed |-> ColsOf(placed[i])]} :
                   /\ \A i \in DOMAIN placed :
                          /\ ItemHeight(placed[i]) > 0
                          /\ \A c \in cols[i] : placed[i].y >= initialHeights[c + 1]
                   /\ \A i, j \in DOMAIN placed :
                          (i < j /\ cols[i] \cap cols[j] # {}) =>
                              placed[j].y >= placed[i].y + ItemHeight(placed[i]) +
                                                 (IF placed[i].kind = "panel" THEN GAP ELSE 0)

\* C28 witness: under pinned controls a pass stacked two panels in one
\* column, put a filler into a column that already held a panel, and placed
\* a panel starting exactly at the bottom edge of a filler
C28_Witness ==
    /\ ColWidth > 0
    /\ initialHeights[1] > 0
    /\ \E i, j \in DOMAIN placed :
           /\ i < j
           /\ placed[i].kind = "panel" /\ placed[j].kind = "panel"
           /\ ~IsSpan(placed[i]) /\ ~IsSpan(placed[j])
           /\ placed[i].x = placed[j].x
           /\ placed[j].y = placed[i].y + ItemHeight(placed[i]) + GAP
    /\ \E i, j \in DOMAIN placed :
           /\ i < j
           /\ placed[i].kind = "panel" /\ placed[j].kind = "filler"
           /\ ColOf(placed[j]) \in ColsOf(placed[i])
    /\ \E i \in DOMAIN placed :
           /\ placed[i].kind = "filler"
           /\ placed[i + 1].y = placed[i].y + placed[i].h

(* Properties of the three engines together *)

\* C15: with an empty panel list applyFilters returns an empty list under
\* every selection, computeFacets returns four empty tables, sortPanels
\* returns an empty list in every mode and computeLayout places nothing
C15_EmptyInEmptyOut ==
    /\ panels = <<>> =>
           /\ filteredPanels = <<>>
           /\ \A key \in FILTER_KEYS : DOMAIN countsOf(facets, key) = {}
    /\ filteredPanels = <<>> => sortedPanels = <<>>
    /\ sortedPanels = <<>> => placed = <<>>

\* C15 witness: an empty gallery opened with a filter in the address, then
\* put into a hash order
C15_Witness ==
    /\ panels = <<>>
    /\ hasActiveFilters(filters)
    /\ sortMode = "phash"
    /\ placed = <<>>
    /\ totalHeight > 0

(* Properties of the bot *)

\* the request carried the secret token the worker is deployed with
TokenVerified(w) ==
    /\ w.env.WEBHOOK_SECRET # None
    /\ w.request[1].secret = w.env.WEBHOOK_SECRET

\* the request carried a message of the allowed chat
FromAllowedChat(w) ==
    /\ w.request[1].message # None
    /\ w.request[1].message[1].chat = w.env.TELEGRAM_ALLOWED_CHAT_ID

\* C17 (as stated): the handler downloads no photo, commits nothing, adds
\* nothing to gallery.json and sends no reply unless the request carried the
\* correct secret token and its message comes from the allowed chat; a
\* request failing either check leaves everything as it was
C17_NoEffectUnlessVerified ==
    (worker.request # None /\ ~(TokenVerified(worker) /\ FromAllowedChat(worker))) =>
        /\ worldOf(worker) = worker.before
        /\ ~worker.run[1].downloaded
        /\ worker.run[1].image = None
        /\ worker.run[1].entry = None
        /\ worker.run[1].replies = <<>>

\* the last request got past the checks of the handler and carried a photo
\* with a caption from the allowed chat
CaptionedPhotoProcessed(w) ==
    /\ w.request # None
    /\ w.request[1].method = "POST"
    /\ (w.env.WEBHOOK_SECRET = None \/ w.request[1].secret = w.env.WEBHOOK_SECRET)
    /\ FromAllowedChat(w)
    /\ w.request[1].message[1].photo
    /\ w.request[1].message[1].caption # None

\* the replies of a kind the last run sent
RepliesOfKind(w, kind) ==
    {i \in DOMAIN w.run[1].replies : w.run[1].replies[i].kind = kind}

\* C30 (as stated): when the handler has processed a captioned photo from
\* the allowed chat, the image file has been committed if and only if a
\* gallery.json entry for it was added and a confirmation reply was sent; on
\* any failure an error reply is sent instead and no image is left
\* committed without its gallery entry
C30_ImageCommittedIffListed ==
    CaptionedPhotoProcessed(worker) =>
        /\ worker.run[1].image # None <=>
               (worker.run[1].entry # None /\ RepliesOfKind(worker, "added") # {})
        /\ RepliesOfKind(worker, "added") = {} =>
               /\ RepliesOfKind(worker, "error") # {}
               /\ worker.run[1].image = None
               /\ Cardinality(worker.images) = Len(worker.gallery)

\* what holds of a run: a confirmation is sent exactly when both the image
\* and its entry were committed, an error reply otherwise, and an entry is
\* never added without its image
EntryOnlyWithImage ==
    CaptionedPhotoProcessed(worker) =>
        /\ RepliesOfKind(worker, "added") # {} <=>
               (worker.run[1].image # None /\ worker.run[1].entry # None)
        /\ RepliesOfKind(worker, "added") = {} <=> RepliesOfKind(worker, "error") # {}
        /\ worker.run[1].entry # None => worker.run[1].image # None

(* Properties of the app's loading states *)

\* C29: after the gallery fetch succeeds the app eventually leaves the
\* spinner: with a non-empty panel list imagesLoaded becomes true (every
\* preload resolved, or the 8-second timeout fired), and with an empty
\* panel list the EmptyState is eventually shown instead of the spinner
C29_EventuallyLeavesSpinner ==
    /\ (status = "ready" /\ Len(panels) # 0) ~> (imagesLoaded /\ ~showSpinner)
    /\ (status = "ready" /\ Len(panels) = 0) ~> (showEmptyState /\ ~showSpinner)

\* what holds of the two halves: a non-empty gallery leaves the spinner,
\* and imagesLoaded is true only once the preloads are through or the timer
\* has fired
GalleryEventuallyShown ==
    (status = "ready" /\ Len(panels) # 0) ~> (imagesLoaded /\ ~showSpinner)

ShownOnlyAfterPreload ==
    imagesLoaded => (preload.settled \/ preload.timeout = "fired")

\* an empty gallery stays behind the spinner
EmptyGalleryKeepsSpinner ==
    (status = "ready" /\ Len(panels) = 0) => (showSpinner /\ ~showEmptyState)

====
